---- MODULE Spec2Model ----
(***************************************************************************)
(* Orchestration workflow engine of abi-core:                              *)
(*   AbiOrchestratorAgent (agents/orchestrator/agent/orchestrator.py)      *)
(* driving a WorkflowGraph (common/workflow.py).  The controller keeps one *)
(* graph, one results list, one query history and one tracked context id  *)
(* on the agent object; stream() is an async generator, so several calls   *)
(* can be suspended on the same object at once.                            *)
(***************************************************************************)
EXTENDS Integers, Sequences, FiniteSets, TLC

\* ---------------------------------------------------------------- bounds
MaxCalls  == 2      \* stream calls made in one behaviour
MaxNodes  == 4      \* workflow nodes created in one behaviour
MaxEvents == 2      \* protocol events delivered in one behaviour
MaxOverlap == 1     \* further calls, made while another call is suspended
MaxRoutes == 3      \* labels routed in one behaviour
MaxChecks == 3      \* guardian operations in one behaviour
MaxRuns == 2        \* runs of the executor in one behaviour
MaxItems == 2       \* items an agent yields in one run of the executor
MaxActions == 2     \* actions of a workflow given to the guardian

\* ------------------------------------------------------------ vocabulary
None   == "None"            \* Python None where a string is expected
NoNode == 0                 \* Python None where a node id is expected
NoGraph == 0                \* self.graph is None

Ctxs == {"c1", "c2"}
OtherCtx(cx) == IF cx = "c1" THEN "c2" ELSE "c1"
QueryOf(c)  == IF c = 1 THEN "q1" ELSE IF c = 2 THEN "q2" ELSE IF c = 3 THEN "q3" ELSE "q4"
TaskIdOf(c) == IF c = 1 THEN "t1" ELSE IF c = 2 THEN "t2" ELSE IF c = 3 THEN "t3" ELSE "t4"

Truthy(v) == v # None /\ v # ""

\* shared-context payloads (data_info) as sets of <<key, value>> entries
D1 == {<<"region", "EMEA">>, <<"period", "week">>}
D2 == {<<"period", "month">>}
EmptyDict == {}
Missing == "missing"        \* the key is absent from the payload

\* ----------------------------------------------------- WorkflowNode/Graph
NoInfo == [task |-> None, key |-> None, label |-> None,
           task_id |-> None, context_id |-> None, query |-> None,
           by |-> 0, byctx |-> None]

\* WorkflowNode(task, node_key, node_label); `by` and `byctx` remember the
\* call that made the node and the context id that call was given
WorkflowNode(task, node_key, node_label, c, cx) ==
    [task |-> task, key |-> node_key, label |-> node_label,
     task_id |-> None, context_id |-> None, query |-> None,
     by |-> c, byctx |-> cx]

\* WorkflowGraph()
WorkflowGraph ==
    [nodes |-> <<>>, edges |-> <<>>, info |-> [n \in 1..MaxNodes |-> NoInfo],
     state |-> "NOT_STARTED", paused_node_id |-> NoNode]

FreeGraph == [WorkflowGraph EXCEPT !.state = "FREE"]

Range(s) == {s[i] : i \in 1..Len(s)}
NodeSet(G) == Range(G.nodes)

\* state transitions of the graph
mark_running_keep(G) == [G EXCEPT !.state = "RUNNING"]
mark_running(G) == [G EXCEPT !.state = "RUNNING", !.paused_node_id = NoNode]
mark_paused(G, n) == [G EXCEPT !.state = "PAUSED", !.paused_node_id = n]
mark_completed(G) == [G EXCEPT !.state = "COMPLETED"]

\* successors / descendants of a node along the recorded edges
Succs(G, S) == {e[2] : e \in {x \in Range(G.edges) : x[1] \in S}}
RECURSIVE Reach(_, _)
Reach(G, S) == LET T == S \cup Succs(G, S) IN IF T = S THEN S ELSE Reach(G, T)

RECURSIVE SortIds(_)
SortIds(S) == IF S = {} THEN <<>>
              ELSE LET m == CHOOSE x \in S : \A y \in S : x <= y
                   IN <<m>> \o SortIds(S \ {m})

\* the nodes run_workflow(start) will invoke, in order: the start node and
\* everything reachable from it, in a topological order (ids grow along
\* every edge, so id order is one)
SubGraph(G, start) == SortIds(Reach(G, {start}))

\* spec 4.1: add_node appends; a duplicate id is an InvalidStateError (ids
\* are fresh here, so the failure is never taken)
add_node(G, n, node) == [G EXCEPT !.nodes = Append(@, n), !.info[n] = node]

\* spec 4.1: add_edge fails with UnknownNodeError if either id is absent
CanAddEdge(G, from, to) == from \in NodeSet(G) /\ to \in NodeSet(G)
add_edge(G, from, to) == [G EXCEPT !.edges = Append(@, <<from, to>>)]

\* spec 4.1: set_attributes merges the given keys into the node's attributes
graph_set_node_attributes(G, n, task_id, context_id, query) ==
    [G EXCEPT !.info[n] =
        [@ EXCEPT !.task_id    = IF task_id # None THEN task_id ELSE @,
                  !.context_id = IF context_id # None THEN context_id ELSE @,
                  !.query      = IF query # None THEN query ELSE @]]

\* reading an attribute the object does not have raises AttributeError
HasAttr(G, name) == name \in DOMAIN G

\* ------------------------------------------------ protocol events (inputs)
Question == "Which region?"

\* one decoded chunk of run_workflow; `name`, data_info and task describe the
\* artifact payload when the chunk is a TaskArtifactUpdateEvent
Event(kind, ctx, name, hdi, di, ht, task) ==
    [kind |-> kind, ctx |-> ctx, name |-> name, has_data_info |-> hdi,
     data_info |-> di, has_task |-> ht, task |-> task]
Plain(kind, ctx) == Event(kind, ctx, None, FALSE, EmptyDict, FALSE, <<>>)
Plan(hdi, di, ht, task) ==
    Event("artifact", None, "PlannerAgent-result", hdi, di, ht, task)
NoEvent == Plain("none", None)

TaskLists == {<<>>, <<"d1", "d2">>, <<"d1", Missing>>}

PlanEvents ==
    {Plan(FALSE, EmptyDict, TRUE, <<"d1">>)}
    \cup {Plan(TRUE, D1, TRUE, t) : t \in TaskLists}
    \cup {Plan(TRUE, D1, FALSE, <<>>), Plan(TRUE, D2, TRUE, <<"d1">>)}

\* the events a node invocation of a call with context cx can emit
Events(cx) ==
    {Plain("status_completed", x) : x \in {None, cx, OtherCtx(cx)}}
    \cup {Plain("status_input_required", cx), Plain("task_input_required", cx)}
    \cup {Plain("task_working", cx), Plain("error_response", None)}
    \cup {Plain("status_working", cx)}
    \cup {Event("artifact", None, "WorkerAgent-result", FALSE, EmptyDict, FALSE, <<>>)}
    \cup PlanEvents

IsInputRequired(ev) == ev.kind \in {"status_input_required", "task_input_required"}

\* a plan artifact with its context payload and n >= 1 described tasks
WellFormedPlan(a) ==
    /\ a.name = "PlannerAgent-result"
    /\ a.has_data_info
    /\ a.has_task
    /\ Len(a.task) >= 1
    /\ \A i \in 1..Len(a.task) : a.task[i] # Missing
\* a plan artifact that lacks an expected payload field
MalformedPlan(a) ==
    /\ a.name = "PlannerAgent-result"
    /\ \/ ~a.has_data_info
       \/ ~a.has_task
       \/ \E i \in 1..Len(a.task) : a.task[i] = Missing

\* what the classifier LLM call can do: raise, answer with text that is not
\* the expected JSON, or answer with a class label
ClassifierOutcomes ==
    {"error", "malformed", "static_knowledge", "small_talk"}

\* output events of stream
Completed(node, ctx) ==
    [type |-> "completed", node |-> node, context |-> ctx, ev |-> NoEvent, content |-> <<>>]
Chunk(ev) ==
    [type |-> "chunk", node |-> NoNode, context |-> None, ev |-> ev, content |-> <<>>]
Summary(content) ==
    [type |-> "summary", node |-> NoNode, context |-> None, ev |-> NoEvent, content |-> content]

\* ------------------------------------------------- AbiOrchestratorAgent
\* The handlers are written over a record m holding the fields of `self`
\* (heap of graph objects, graph, results, query_context, query_history,
\* context_id), the id counters, the locals of one stream call (query, ctx,
\* task_id, start, resume), the exception in flight (err), the value
\* returned by the last helper (ret), the events yielded by the step (yield)
\* and whether the step ended in `continue` (cont).
Raise(m, e) == [m EXCEPT !.err = e]
Ok(m) == m.err = "none"

Route(flow, next, top_k, tool) ==
    [flow |-> flow, next |-> next, top_k |-> top_k, tool |-> tool]

\* no default branch: an unknown label gets a flow of its own
router_without_default(class_type) ==
    IF class_type = "methodology"
    THEN Route("orchestrator_answer", "fill_analysis_approach_defaults", 0, None)
    ELSE IF class_type = "static_knowledge"
    THEN Route("worker_semantic", None, 8, None)
    ELSE IF class_type = "time_sensitive"
    THEN Route("planner_tool", None, 0, "web.search")
    ELSE Route("unknown", None, 0, None)

router_from_qa(class_type) ==
    IF class_type = "methodology"
    THEN Route("orchestrator_answer", "fill_analysis_approach_defaults", 0, None)
    ELSE IF class_type = "static_knowledge"
    THEN Route("worker_semantic", None, 8, None)
    ELSE IF class_type = "time_sensitive"
    THEN Route("planner_tool", None, 0, "web.search")
    ELSE Route("orchestrator_answer", "fill_analysis_approach_defaults", 0, None)

build_query_for_flow(route, question) ==
    IF route.flow = "orchestrator_answer"
    THEN "Answer using methodology approach: " \o question
    ELSE IF route.flow = "worker_semantic"
    THEN "semantic_search: " \o question \o " top_k=" \o ToString(route.top_k)
    ELSE IF route.flow = "planner_tool"
    THEN "execute_tool: " \o route.tool \o " query=" \o question
    ELSE "process: " \o question

get_node_label(flow_type) ==
    IF flow_type = "orchestrator_answer" THEN "Direct Answer"
    ELSE IF flow_type = "worker_semantic" THEN "Semantic Search"
    ELSE IF flow_type = "planner_tool" THEN "External Tool"
    ELSE "Unknown Flow"

set_node_attributes(m, node_id, task_id, context_id, query) ==
    IF ~Ok(m) THEN m
    ELSE IF m.graph = NoGraph THEN Raise(m, "AttributeError")
    ELSE IF node_id \notin NodeSet(m.heap[m.graph]) THEN Raise(m, "UnknownNodeError")
    ELSE [m EXCEPT !.heap[m.graph] =
            graph_set_node_attributes(@, node_id,
                IF Truthy(task_id) THEN task_id ELSE None,
                IF Truthy(context_id) THEN context_id ELSE None,
                IF Truthy(query) THEN query ELSE None)]

Returning(m, v) == [m EXCEPT !.ret = v]

\* lines 169-170: the edge from node_id, when one is given
add_graph_node_edge(m, node_id, n) ==
    IF node_id = NoNode THEN m
    ELSE IF ~CanAddEdge(m.heap[m.graph], node_id, n) THEN Raise(m, "UnknownNodeError")
    ELSE [m EXCEPT !.heap[m.graph] = add_edge(@, node_id, n)]

add_graph_node(m, task_id, context_id, query, node_id, node_key, node_label) ==
    IF ~Ok(m) THEN m
    ELSE IF m.graph = NoGraph THEN Raise(m, "AttributeError")
    ELSE Returning(
             set_node_attributes(
                 add_graph_node_edge(
                     [m EXCEPT !.nextId = @ + 1,
                               !.heap[m.graph] =
                                   add_node(@, m.nextId,
                                            WorkflowNode(query, node_key, node_label,
                                                         m.call, m.argctx))],
                     node_id, m.nextId),
                 m.nextId, task_id, context_id, query),
             m.nextId)

clear_state_keep_results(m) ==
    [m EXCEPT !.graph = NoGraph, !.query_context = EmptyDict, !.query_history = <<>>]
clear_state(m) ==
    [m EXCEPT !.graph = NoGraph, !.results = <<>>,
              !.query_context = EmptyDict, !.query_history = <<>>]

\* _execute_flow_as_node: a dynamic node, connected to nothing, key ''
execute_flow_as_node(m, route, question, task_id, context_id) ==
    add_graph_node(m, task_id, context_id, build_query_for_flow(route, question),
                   NoNode, "", get_node_label(route.flow))

Answer(can, text, node_id) == [can_answer |-> can, answer |-> text, node_id |-> node_id]
CannotAnswer == Answer("no", "Cannot answer based on provided context", NoNode)

\* lines 133-141: the "yes" answer, or the fixed "no" answer when the try
\* block raised; what the block did before the exception stays done
answer_or_cannot(m, route) ==
    IF ~Ok(m) THEN [m EXCEPT !.err = "none", !.ret = CannotAnswer]
    ELSE [m EXCEPT !.ret = Answer("yes", "Executing " \o route.flow \o " workflow", m.ret)]

\* the classifier call and the validation stand outside the try block
answer_planner_question_unguarded(m, question, context_id, task_id, cls) ==
    IF cls \in {"error", "malformed"} THEN Raise(m, "ClassifierError")
    ELSE answer_or_cannot(
             execute_flow_as_node(m, router_from_qa(cls), question, task_id, context_id),
             router_from_qa(cls))

\* answer_planner_question: classify, route, add the dynamic node
answer_planner_question(m, question, context_id, task_id, cls) ==
    IF cls \in {"error", "malformed"} THEN [m EXCEPT !.ret = CannotAnswer]
    ELSE answer_or_cannot(
             execute_flow_as_node(m, router_from_qa(cls), question, task_id, context_id),
             router_from_qa(cls))

\* lines 249-250 and 304-305: an exception in the block is logged and dropped
resume_unless_raised(m) ==
    IF ~Ok(m) THEN [m EXCEPT !.err = "none"] ELSE [m EXCEPT !.resume = TRUE]

\* the cursor moves and the restart is asked for, the query is left alone
use_answer_keep_query(m) ==
    IF m.ret.can_answer # "yes" THEN m
    ELSE IF m.graph = NoGraph THEN [m EXCEPT !.query = m.ret.answer]
    ELSE [m EXCEPT !.query = m.ret.answer,
                   !.start = m.heap[m.graph].paused_node_id, !.resume = TRUE]

\* lines 241-248 and 296-303: on "yes" move the cursor to the graph's paused
\* node, overwrite its query and ask for a restart
use_answer(m) ==
    IF m.ret.can_answer # "yes" THEN m
    ELSE IF m.graph = NoGraph THEN [m EXCEPT !.query = m.ret.answer]
    ELSE resume_unless_raised(
             set_node_attributes(
                 [m EXCEPT !.query = m.ret.answer,
                           !.start = m.heap[m.graph].paused_node_id],
                 m.heap[m.graph].paused_node_id, None, None, m.ret.answer))

\* lines 238-250 and 290-305: ask the resolver and act on its answer
try_answer(m, cls) ==
    use_answer(answer_planner_question(m, Question, m.ctx, m.task_id, cls))

\* lines 222-250: a TaskStatusUpdateEvent
on_status_update(m, ev, cls) ==
    IF ev.kind = "status_completed" /\ Truthy(ev.ctx)
    THEN [m EXCEPT !.ctx = ev.ctx, !.yield = <<Completed(m.start, ev.ctx)>>,
                   !.cont = TRUE]
    ELSE IF ev.kind = "status_input_required"
    THEN try_answer([m EXCEPT !.ctx = ev.ctx], cls)
    ELSE [m EXCEPT !.ctx = ev.ctx]

\* lines 264-275: one node per task, each chained to the previous one; the
\* first one becomes the cursor and asks for a restart
RECURSIVE chain_tasks(_, _, _, _)
RECURSIVE chain_next(_, _, _)
chain_tasks(m, tasks, idx, current_node_id) ==
    IF ~Ok(m) \/ idx > Len(tasks) THEN m
    ELSE IF tasks[idx] = Missing THEN Raise(m, "KeyError")
    ELSE chain_next(add_graph_node(m, m.task_id, m.ctx, tasks[idx],
                                   current_node_id, None, None),
                    tasks, idx)
\* lines 271-275, with m the state after add_graph_node
chain_next(m, tasks, idx) ==
    chain_tasks(IF Ok(m) /\ idx = 1
                THEN [m EXCEPT !.resume = TRUE, !.start = m.ret] ELSE m,
                tasks, idx + 1, m.ret)

\* the artifact of a TaskArtifactUpdateEvent; src, srcctx and seq remember
\* the call that received it, that call's context id and the event's number
Artifact(ev, c, cx, n) ==
    [name |-> ev.name, has_data_info |-> ev.has_data_info, data_info |-> ev.data_info,
     has_task |-> ev.has_task, task |-> ev.task, src |-> c, srcctx |-> cx, seq |-> n]

\* the `continue` of line 282 left out
on_plan_forwarding(m, ev) ==
    IF ev.name = "PlannerAgent-result"
    THEN IF ev.has_data_info
         THEN IF ~ev.has_task
              THEN Raise([m EXCEPT !.query_context = ev.data_info], "KeyError")
              ELSE chain_tasks([m EXCEPT !.query_context = ev.data_info],
                               ev.task, 1, m.start)
         ELSE m
    ELSE m

\* lines 256-282, with the artifact already appended to results
on_plan(m, ev) ==
    IF ev.name = "PlannerAgent-result"
    THEN IF ev.has_data_info
         THEN IF ~ev.has_task
              THEN Raise([m EXCEPT !.query_context = ev.data_info], "KeyError")
              ELSE chain_tasks([m EXCEPT !.query_context = ev.data_info],
                               ev.task, 1, m.start)
         ELSE m
    ELSE [m EXCEPT !.cont = TRUE]

\* the artifact is kept only while no restart has been asked for
on_artifact_unless_resuming(m, ev) ==
    IF m.resume THEN on_plan(m, ev)
    ELSE on_plan([m EXCEPT !.results =
                      Append(@, Artifact(ev, m.call, m.argctx, m.nev))], ev)

\* lines 253-282: a TaskArtifactUpdateEvent
on_artifact(m, ev) ==
    on_plan([m EXCEPT !.results = Append(@, Artifact(ev, m.call, m.argctx, m.nev))], ev)

\* the branch of lines 283-305 left out: a Task snapshot is not looked at
on_task_unhandled(m, ev, cls) == m

\* lines 283-305: a Task snapshot
on_task(m, ev, cls) ==
    IF ev.kind = "task_input_required"
    THEN try_answer([m EXCEPT !.ctx = ev.ctx], cls)
    ELSE m

\* a chunk of no known type is taken for an artifact
dispatch_chunk_default_artifact(m, ev, cls) ==
    IF ev.kind \in {"status_completed", "status_input_required", "status_working"}
    THEN on_status_update(m, ev, cls)
    ELSE IF ev.kind \in {"task_input_required", "task_working"}
    THEN on_task(m, ev, cls)
    ELSE on_artifact(m, ev)

\* lines 217-305: dispatch on the type of chunk.root.result
dispatch_chunk(m, ev, cls) ==
    IF ev.kind \in {"status_completed", "status_input_required", "status_working"}
    THEN on_status_update(m, ev, cls)
    ELSE IF ev.kind = "artifact" THEN on_artifact(m, ev)
    ELSE IF ev.kind \in {"task_input_required", "task_working"}
    THEN on_task(m, ev, cls)
    ELSE m

\* the test of line 306 the wrong way round
yield_chunk_inverted(m, ev) ==
    IF Ok(m) /\ ~m.cont /\ m.resume THEN [m EXCEPT !.yield = <<Chunk(ev)>>] ELSE m

\* lines 306-308: the chunk is passed on unless a restart was asked for
yield_chunk(m, ev) ==
    IF Ok(m) /\ ~m.cont /\ ~m.resume THEN [m EXCEPT !.yield = <<Chunk(ev)>>] ELSE m

\* lines 216-308: the body of the `async for` over run_workflow
handle_chunk(m, ev, cls) == yield_chunk(dispatch_chunk(m, ev, cls), ev)

\* lines 184-185: validation comes first
stream_entry_bootstrap_first(m) ==
    IF m.context_id # m.ctx
    THEN Raise([clear_state(m) EXCEPT !.context_id = m.ctx], "ValueError")
    ELSE Raise(m, "ValueError")
stream_invalid(m) == Raise(m, "ValueError")

\* lines 186-190: context bootstrap and history
bootstrap(m) ==
    [(IF m.context_id # m.ctx THEN [clear_state(m) EXCEPT !.context_id = m.ctx] ELSE m)
        EXCEPT !.query_history = Append(@, m.query), !.start = NoNode]

\* line 201
start_at_root(m) == [m EXCEPT !.start = m.ret]

\* a graph that is not paused is run again from its first node
choose_start_rerun(m) ==
    IF m.graph = NoGraph
    THEN start_at_root(
             add_graph_node([m EXCEPT !.graph = m.nextGid, !.nextGid = @ + 1,
                                      !.heap[m.nextGid] = WorkflowGraph],
                            m.task_id, m.ctx, m.query, NoNode, "planner", "Planner"))
    ELSE IF m.heap[m.graph].state = "PAUSED"
    THEN IF ~HasAttr(m.heap[m.graph], "pused_node_id")
         THEN Raise(m, "AttributeError")
         ELSE set_node_attributes(
                  [m EXCEPT !.start = m.heap[m.graph].paused_node_id],
                  m.heap[m.graph].paused_node_id, None, None, m.query)
    ELSE [m EXCEPT !.start = m.heap[m.graph].nodes[1]]

\* lines 192-204: a new graph with its planner root, or the paused node
choose_start(m) ==
    IF m.graph = NoGraph
    THEN start_at_root(
             add_graph_node([m EXCEPT !.graph = m.nextGid, !.nextGid = @ + 1,
                                      !.heap[m.nextGid] = WorkflowGraph],
                            m.task_id, m.ctx, m.query, NoNode, "planner", "Planner"))
    ELSE IF m.heap[m.graph].state = "PAUSED"
    THEN IF ~HasAttr(m.heap[m.graph], "pused_node_id")
         THEN Raise(m, "AttributeError")
         ELSE set_node_attributes(
                  [m EXCEPT !.start = m.heap[m.graph].paused_node_id],
                  m.heap[m.graph].paused_node_id, None, None, m.query)
    ELSE m

\* lines 184-205: validation, context bootstrap, choice of the start node
stream_entry(m) ==
    IF ~Truthy(m.query) THEN stream_invalid(m) ELSE choose_start(bootstrap(m))

\* lines 207-212: stamp the cursor node, clear the restart flag
loop_top(m) ==
    [set_node_attributes(m, m.start, m.task_id, m.ctx, None) EXCEPT !.resume = FALSE]

\* ------------------------------------------------------ AbiGuardianSecure
\* guardial_secure.py.  The policy engine and the explaining LLM are
\* collaborators: what they answer is an input of the operation.  The
\* record g holds the fields of the agent, what the engine was asked so far,
\* and the result of the last operation (ret, out).  risk_score is in tenths.

\* __init__ (lines 39-57): system_secure starts False
NewGuardian ==
    [system_secure |-> FALSE, initialized |-> 0, health_checks |-> 0,
     evaluations |-> 0, op |-> "none", ops |-> 0, health |-> "none",
     ret |-> <<>>, out |-> <<>>, decided |-> <<>>, raised |-> "none"]

\* what initialize() and health_check() of the policy engine can do
EngineOutcomes ==
    {"initialize_raises", "health_check_raises", "insecure", "no_verdict", "secure"}

PolicyDecision(allow, deny, risk_score, fail_safe) ==
    [allow |-> allow, deny |-> deny, risk_score |-> risk_score, fail_safe |-> fail_safe]

\* lines 108-114
HardDeny == PolicyDecision(FALSE, TRUE, 10, "hard_deny")

\* what evaluate_policy of the engine can return
EngineDecisions ==
    {PolicyDecision(TRUE, FALSE, 1, "none"), PolicyDecision(FALSE, TRUE, 9, "none"),
     PolicyDecision(FALSE, FALSE, 5, "none")}

Began(g, op) ==
    [g EXCEPT !.op = op, !.ops = @ + 1, !.health = "none", !.ret = <<>>, !.out = <<>>,
              !.decided = <<>>, !.raised = "none"]

\* initialize_security (lines 59-88)
initialize_security(g, outcome) ==
    IF outcome = "initialize_raises"
    THEN [g EXCEPT !.ret = <<FALSE>>]
    ELSE IF outcome = "health_check_raises"
    THEN [g EXCEPT !.initialized = @ + 1, !.ret = <<FALSE>>]
    ELSE IF outcome \in {"insecure", "no_verdict"}
    THEN [g EXCEPT !.initialized = @ + 1, !.health_checks = @ + 1,
                   !.health = outcome, !.ret = <<FALSE>>]
    ELSE [g EXCEPT !.initialized = @ + 1, !.health_checks = @ + 1,
                   !.health = outcome, !.system_secure = TRUE, !.ret = <<TRUE>>]

\* validate_action (lines 90-136): the engine is consulted at every call
validate_action_unguarded(g, decision) ==
    [g EXCEPT !.evaluations = @ + 1, !.ret = <<decision>>]
validate_action(g, decision) ==
    IF ~g.system_secure
    THEN [g EXCEPT !.ret = <<HardDeny>>]
    ELSE [g EXCEPT !.evaluations = @ + 1, !.ret = <<decision>>]

\* lines 188-202: validate_action for each action of the workflow; decided
\* collects the decisions
RECURSIVE check_actions(_, _, _)
check_actions(g, decisions, i) ==
    IF i > Len(decisions) THEN g
    ELSE check_actions(
             [validate_action(g, decisions[i]) EXCEPT
                  !.decided = Append(@, validate_action(g, decisions[i]).ret[1])],
             decisions, i + 1)

RECURSIVE total_risk(_)
total_risk(ds) == IF ds = <<>> THEN 0 ELSE Head(ds).risk_score + total_risk(Tail(ds))
blocked_actions(ds) == {i \in 1..Len(ds) : ds[i].deny}
high_risk_actions(ds) == {i \in 1..Len(ds) : ~ds[i].deny /\ ds[i].risk_score > 7}

\* lines 211-215, when no operand of the `or` raises: scores are in tenths
requires_approval(ds) ==
    \/ total_risk(ds) > 6 * Len(ds)
    \/ Cardinality(high_risk_actions(ds)) > 2
    \/ 10 * Cardinality(high_risk_actions(ds)) > 3 * Len(ds)

\* lines 205-249, with the actions decided.  With no action the first two
\* operands of lines 212-213 are false and the third (line 214) divides by
\* the number of actions.
workflow_decision(g) ==
    IF g.decided = <<>>
    THEN [g EXCEPT !.ret = <<>>, !.raised = "ZeroDivisionError"]
    ELSE [g EXCEPT !.ret =
             <<PolicyDecision(
                   blocked_actions(g.decided) = {} /\ ~requires_approval(g.decided),
                   blocked_actions(g.decided) # {},
                   total_risk(g.decided) \div Len(g.decided),
                   "none")>>]

\* validate_workflow_execution (lines 172-249)
validate_workflow_execution(g, decisions) ==
    workflow_decision(check_actions(g, decisions, 1))

\* the items stream yields
SecurityError ==
    [response_type |-> "error", is_task_complete |-> TRUE, security_error |-> TRUE,
     policy_decision |-> <<>>]
Explanation(decision) ==
    [response_type |-> "text", is_task_complete |-> FALSE, security_error |-> FALSE,
     policy_decision |-> decision]
Final(kind, decision) ==
    [response_type |-> kind, is_task_complete |-> TRUE, security_error |-> FALSE,
     policy_decision |-> decision]

\* lines 319-372: the explanation chunks (n of them are AIMessages), then
\* the structured decision
explain(g, n) ==
    [g EXCEPT !.out = [i \in 1..n |-> Explanation(g.ret)] \o <<Final("data", g.ret)>>]

\* stream (lines 280-405): json says whether the query parses as JSON
guardian_stream(g, json, decision, n) ==
    IF ~g.system_secure
    THEN [g EXCEPT !.out = <<SecurityError>>]
    ELSE IF json
    THEN explain(validate_action(g, decision), n)
    ELSE [g EXCEPT !.out = [i \in 1..n |-> Explanation(<<>>)] \o <<Final("text", <<>>)>>]

\* ------------------------------------------------------- ABIAgentExecutor
\* agent_executor.py.  An item an agent's stream yields is a protocol
\* response (an object with a root) or a mapping; of a mapping the model
\* keeps its keys, the value under its completion key (complete), the value
\* of require_user_input (input) and of response_type (rtype).
Mapping(keys, complete, input, rtype) ==
    [kind |-> "mapping", keys |-> keys, complete |-> complete, input |-> input,
     rtype |-> rtype, event |-> None]
Response(event) ==
    [kind |-> "response", keys |-> {}, complete |-> FALSE, input |-> FALSE,
     rtype |-> None, event |-> event]

\* what stream of the orchestrator yields (orchestrator.py lines 228-232,
\* 308, 321-326), as the executor sees it
AsItem(o) ==
    IF o.type = "completed"
    THEN Mapping({"event", "node", "context"}, FALSE, FALSE, None)
    ELSE IF o.type = "summary"
    THEN Mapping({"response_type", "is_task_complete", "require_user_input", "content"},
                 TRUE, FALSE, "text")
    ELSE Response(IF o.ev.kind = "artifact" THEN "artifact"
                  ELSE IF o.ev.kind \in {"status_completed", "status_input_required",
                                         "status_working"}
                  THEN "status" ELSE "other")

OrchestratorItems ==
    {AsItem(Completed(1, "c1")), AsItem(Summary(<<>>)),
     AsItem(Chunk(Plain("status_working", "c1")))}

\* planner.py lines 68-73: the item for an AIMessage
PlannerIntermediate ==
    Mapping({"response_type", "is_task_completed", "require_user_input", "content"},
            FALSE, FALSE, "text")

PlannerStatuses == {"input_required", "error", "completed", "none"}

\* get_agent_response (planner.py lines 76-107)
get_agent_response(status) ==
    IF status = "input_required"
    THEN Mapping({"reponse_type", "is_task_completed", "require_user_input", "content"},
                 FALSE, TRUE, None)
    ELSE IF status = "error"
    THEN Mapping({"response_type", "is_task_completed", "require_user_input", "content"},
                 FALSE, TRUE, "text")
    ELSE IF status = "completed"
    THEN Mapping({"response_type", "is_task_completed", "require_user_input", "content"},
                 TRUE, FALSE, "data")
    ELSE Mapping({"is_task_completed", "require_user_input", "content"},
                 FALSE, TRUE, None)

\* AbiPlannerAgent.stream (planner.py lines 54-74): n AIMessages, then the
\* final response
planner_stream(n, status) ==
    [i \in 1..n |-> PlannerIntermediate] \o <<get_agent_response(status)>>

\* the field is_task_complete of a mapping that has the key
IsComplete(item) == "is_task_complete" \in item.keys /\ item.complete

\* one run of execute: what was put on the event queue, how it ended
Ran(published, outcome) == [published |-> published, outcome |-> outcome]

\* lines 52-104: the loop over the agent's items, from item i on
RECURSIVE consume(_, _, _)
consume(items, i, published) ==
    IF i > Len(items) THEN Ran(published, "returned")
    ELSE IF items[i].kind = "response"
    THEN IF items[i].event \in {"status", "artifact"}
         THEN Ran(published, "AttributeError")      \* line 65: equeue_event
         ELSE consume(items, i + 1, published)
    ELSE IF "is_task_complete" \notin items[i].keys
            \/ "require_user_input" \notin items[i].keys
    THEN Ran(published, "KeyError")
    ELSE IF IsComplete(items[i])
    THEN IF "response_type" \notin items[i].keys
         THEN Ran(published, "KeyError")
         ELSE Ran(published \o <<"artifact", "complete">>, "returned")
    ELSE IF items[i].input
    THEN Ran(Append(published, "input_required"), "returned")
    ELSE consume(items, i + 1, Append(published, "working"))

\* _validate_request (lines 106-109): raises, or returns True
validate_request(req) == IF req.input_data = "empty" THEN "ValueError" ELSE "True"

\* lines 41-104: the task is made and queued when the request has none,
\* then the agent's items are consumed
execute_body(req, items) ==
    consume(items, 1, IF req.has_task THEN <<>> ELSE <<"task">>)

\* execute (lines 30-104): line 38 takes the True of a valid request for an
\* error
execute(req, items) ==
    IF validate_request(req) = "ValueError" THEN Ran(<<>>, "ValueError")
    ELSE IF validate_request(req) = "True" THEN Ran(<<>>, "ServerError")
    ELSE execute_body(req, items)

Requests == [input_data : {"empty", "given"}, has_task : BOOLEAN]

NewExecutor ==
    [runs |-> 0, agent |-> None, req |-> <<>>, items |-> <<>>,
     published |-> <<>>, outcome |-> "none"]

\* ------------------------------------------------------------------ state
VARIABLES
    self,       \* the fields of the one AbiOrchestratorAgent object
    heap,       \* the WorkflowGraph objects, by object identity
    nextId,     \* next fresh node id (WorkflowNode ids are unique)
    nextGid,    \* next fresh graph object
    calls,      \* the stream calls: locals, generator position, outputs
    ncalls,     \* stream calls started so far
    nev,        \* protocol events delivered so far
    routed,     \* the labels given to the router, with its answers
    guardian,   \* the fields of the one AbiGuardianSecure object
    executor    \* the last run of ABIAgentExecutor.execute

vars == <<self, heap, nextId, nextGid, calls, ncalls, nev, routed, guardian, executor>>

\* what the orchestrator's stream never touches
others == <<routed, guardian, executor>>

CallIds == 1..(MaxCalls + MaxOverlap)

NewCall ==
    [pc |-> "new", query |-> None, argctx |-> None, ctx |-> None, task_id |-> None,
     start |-> NoNode, resume |-> FALSE,
     gen_g |-> NoGraph, gen_todo |-> <<>>, gen_cur |-> NoNode, gen_stop |-> FALSE,
     out |-> <<>>, outcome |-> "none", atYield |-> FALSE,
     \* bookkeeping for the properties
     switched |-> FALSE, tracked |-> None, inv |-> <<>>, arts |-> <<>>,
     unres |-> NoNode, nsum |-> 0, sumArg |-> <<>>, exitState |-> "none",
     resumeAt |-> NoNode, root |-> NoNode, afterSummary |-> FALSE,
     oldResults |-> <<>>, oldGraph |-> NoGraph, paused |-> NoNode,
     pending |-> {}, exitResults |-> <<>>,
     lastEv |-> NoEvent, answered |-> <<>>, abandoned |-> NoNode]

\* __init__ (lines 34-44)
Init ==
    /\ self = [graph |-> NoGraph, results |-> <<>>, query_context |-> EmptyDict,
               query_history |-> <<>>, context_id |-> None]
    /\ heap = [g \in CallIds |-> FreeGraph]
    /\ nextId = 1
    /\ nextGid = 1
    /\ calls = [c \in CallIds |-> NewCall]
    /\ ncalls = 0
    /\ nev = 0
    /\ routed = <<>>
    /\ guardian = NewGuardian
    /\ executor = NewExecutor

M(c) ==
    [heap |-> heap, graph |-> self.graph, results |-> self.results,
     query_context |-> self.query_context, query_history |-> self.query_history,
     context_id |-> self.context_id, nextId |-> nextId, nextGid |-> nextGid,
     call |-> c, argctx |-> calls[c].argctx, nev |-> nev,
     query |-> calls[c].query, ctx |-> calls[c].ctx, task_id |-> calls[c].task_id,
     start |-> calls[c].start, resume |-> calls[c].resume,
     err |-> "none", ret |-> NoNode, yield |-> <<>>, cont |-> FALSE]

SelfOf(m) ==
    [graph |-> m.graph, results |-> m.results, query_context |-> m.query_context,
     query_history |-> m.query_history, context_id |-> m.context_id]

\* graph objects still referenced by the agent or by a suspended generator
Live(s, cs) == {s.graph} \cup {cs[c].gen_g : c \in {d \in CallIds : cs[d].pc = "run"}}
Collect(h, live) == [g \in DOMAIN h |-> IF g \in live THEN h[g] ELSE FreeGraph]

Active(c) == calls[c].pc \notin {"new", "done"}
NoActiveCall == \A c \in CallIds : ~Active(c)

Ended(cr, outcome) ==
    [cr EXCEPT !.pc = "done", !.outcome = outcome, !.atYield = FALSE,
               !.gen_g = NoGraph, !.gen_todo = <<>>, !.gen_cur = NoNode]

\* write back the fields of self, the counters and the call's locals
Locals(cr, m) ==
    [cr EXCEPT !.query = m.query, !.ctx = m.ctx, !.start = m.start,
               !.resume = m.resume, !.out = @ \o m.yield,
               !.atYield = (m.yield # <<>>)]

\* a call that is over keeps its record until the next call starts
Forgotten == [NewCall EXCEPT !.pc = "done"]

Commit(c, m, cr) ==
    LET cs == [d \in CallIds |->
                 IF d = c THEN cr
                 ELSE IF calls[c].pc = "new" /\ calls[d].pc = "done"
                 THEN Forgotten ELSE calls[d]]
    IN  /\ m.nextId <= MaxNodes + 1
        /\ calls' = cs
        /\ self' = SelfOf(m)
        /\ heap' = Collect(m.heap, Live(SelfOf(m), cs))
        /\ nextId' = m.nextId
        /\ nextGid' = m.nextGid

\* what the transport is sent when the graph invokes node n
Invocation(c, g, G, n) ==
    [call |-> c, g |-> g, node |-> n, query |-> G.info[n].query,
     task_id |-> G.info[n].task_id, context_id |-> G.info[n].context_id]

\* ---------------------------------------------------------------- actions
\* stream(query, context_id, task_id) up to the head of the while loop
Call(c, q, cx) ==
    /\ c = ncalls + 1
    /\ c \in CallIds
    /\ LET cr0 == [NewCall EXCEPT !.query = q, !.argctx = cx, !.ctx = cx,
                                  !.task_id = TaskIdOf(c)]
           m   == stream_entry([M(c) EXCEPT !.query = q, !.ctx = cx, !.argctx = cx,
                                            !.task_id = TaskIdOf(c)])
           cr1 == [Locals(cr0, m) EXCEPT
                      !.switched = (self.context_id # cx),
                      !.tracked = self.context_id,
                      !.oldResults = self.results,
                      !.oldGraph = self.graph,
                      !.resumeAt = IF self.graph # NoGraph /\ self.context_id = cx
                                   THEN heap[self.graph].paused_node_id ELSE NoNode,
                      !.root = IF Ok(m) /\ m.nextId > nextId THEN m.ret ELSE NoNode,
                      !.afterSummary = (c > 1 /\ calls[c - 1].nsum = 1
                                              /\ calls[c - 1].outcome = "returned"),
                      !.abandoned = IF /\ c > 1
                                       /\ calls[c - 1].outcome = "abandoned"
                                       /\ self.context_id = cx
                                       /\ self.graph # NoGraph
                                       /\ heap[self.graph].state = "RUNNING"
                                    THEN calls[c - 1].start ELSE NoNode]
       IN  Commit(c, m, IF Ok(m) THEN [cr1 EXCEPT !.pc = "top"] ELSE Ended(cr1, m.err))
    /\ ncalls' = c
    /\ UNCHANGED <<nev, others>>

\* the context ids are interchangeable: the first call uses "c1"
CallCtxs == IF ncalls = 0 THEN {"c1"} ELSE Ctxs

\* a call made while no other call is in progress
StreamCall ==
    \E q \in {"", QueryOf(ncalls + 1)}, cx \in CallCtxs :
        NoActiveCall /\ ncalls < MaxCalls /\ Call(ncalls + 1, q, cx)

\* control leaves a call only where it yields an event to its caller: a call
\* that is under way and not suspended at a yield keeps control
HasControl(c) == Active(c) /\ ~calls[c].atYield
MayRun(c) == \A d \in CallIds : HasControl(d) => d = c

\* a call made while another call is suspended at a yield
OverlappingCall ==
    \E q \in {"", QueryOf(ncalls + 1)}, cx \in CallCtxs :
        /\ ~NoActiveCall
        /\ \A d \in CallIds : ~HasControl(d)
        /\ Call(ncalls + 1, q, cx)

\* head of the while loop (lines 207-215) and the start of run_workflow:
\* the graph goes RUNNING and invokes the first node of the sub-graph
LoopTop(c) ==
    /\ calls[c].pc = "top"
    /\ MayRun(c)
    /\ \E m \in {loop_top(M(c))} :
         IF ~Ok(m)
         THEN Commit(c, m, Ended(Locals(calls[c], m), m.err))
         ELSE \E todo \in {SubGraph(m.heap[m.graph], m.start)},
                 m1 \in {[m EXCEPT !.heap[m.graph] = mark_running(@)]} :
                Commit(c, m1,
                       [Locals(calls[c], m1) EXCEPT
                           !.pc = "run", !.gen_g = m.graph, !.gen_cur = Head(todo),
                           !.gen_todo = Tail(todo), !.gen_stop = FALSE,
                           !.inv = Append(@, Invocation(c, m.graph, m1.heap[m.graph],
                                                        Head(todo))),
                           !.pending = {}, !.lastEv = NoEvent,
                           !.answered = <<>>])
    /\ UNCHANGED <<ncalls, nev, others>>

\* run_workflow goes on with the stream of the node after any event
stream_never_stops(ev) == FALSE
\* run_workflow ends the stream of the node it has paused at
stream_stops(ev) == IsInputRequired(ev)

\* the node under invocation emits one event: the graph records a pause on
\* input_required, then the body of the `async for` handles the chunk
NodeEvent(c) ==
    /\ calls[c].pc = "run"
    /\ MayRun(c)
    /\ ~calls[c].gen_stop
    /\ nev < MaxEvents
    /\ \E ev \in Events(calls[c].argctx) :
       \E cls \in (IF IsInputRequired(ev) THEN ClassifierOutcomes ELSE {"error"}) :
         LET g   == calls[c].gen_g
             cur == calls[c].gen_cur
             m0  == IF IsInputRequired(ev)
                    THEN [M(c) EXCEPT !.heap[g] = mark_paused(@, cur)] ELSE M(c)
             m   == handle_chunk([m0 EXCEPT !.nev = nev + 1], ev, cls)
             cr0 == [Locals(calls[c], m) EXCEPT
                        !.gen_stop = stream_stops(ev),
                        !.lastEv = ev,
                        !.answered = IF IsInputRequired(ev) THEN <<m.ret>> ELSE <<>>,
                        !.arts = IF ev.kind = "artifact"
                                 THEN Append(@, Artifact(ev, c, calls[c].argctx, nev + 1))
                                 ELSE @,
                        !.paused = IF IsInputRequired(ev) THEN cur ELSE @,
                        !.unres = IF IsInputRequired(ev) /\ m.ret.can_answer = "no"
                                  THEN cur ELSE @,
                        !.pending = IF ev.kind = "artifact" /\ WellFormedPlan(ev)
                                    THEN @ \cup {nextId} ELSE @]
         IN  Commit(c, m, IF Ok(m) THEN cr0 ELSE Ended(cr0, m.err))
    /\ nev' = nev + 1
    /\ UNCHANGED <<ncalls, others>>

\* the stream of the current node is over and the graph is not paused:
\* run_workflow invokes the next node of its sub-graph
NextNode(c) ==
    /\ calls[c].pc = "run"
    /\ MayRun(c)
    /\ heap[calls[c].gen_g].state # "PAUSED"
    /\ calls[c].gen_todo # <<>>
    /\ LET g == calls[c].gen_g
           n == Head(calls[c].gen_todo)
       IN  calls' = [calls EXCEPT ![c] =
                  [@ EXCEPT !.gen_cur = n, !.gen_todo = Tail(@), !.atYield = FALSE,
                            !.inv = Append(@, Invocation(c, g, heap[g], n)),
                            !.pending = {}, !.lastEv = NoEvent,
                            !.answered = <<>>]]
    /\ UNCHANGED <<self, heap, nextId, nextGid, ncalls, nev, others>>

\* run_workflow is exhausted (paused, or no node left: RUNNING becomes
\* COMPLETED); lines 309-316 restart the loop or leave it
summary_wanted_always(state) == state # "NOT_STARTED"
summary_wanted(state) == state = "COMPLETED"

WorkflowEnd(c) ==
    /\ calls[c].pc = "run"
    /\ MayRun(c)
    /\ heap[calls[c].gen_g].state = "PAUSED" \/ calls[c].gen_todo = <<>>
    /\ LET g  == calls[c].gen_g
           G  == IF heap[g].state = "RUNNING" THEN mark_completed(heap[g]) ELSE heap[g]
           m  == [M(c) EXCEPT !.heap[g] = G]
           cr == [Locals(calls[c], m) EXCEPT
                     !.gen_g = NoGraph, !.gen_cur = NoNode, !.gen_todo = <<>>]
       IN  IF calls[c].resume THEN Commit(c, m, [cr EXCEPT !.pc = "top"])
           ELSE IF m.graph = NoGraph THEN Commit(c, m, Ended(cr, "AttributeError"))
           ELSE LET st == m.heap[m.graph].state
                    ce == [cr EXCEPT !.exitState = st, !.exitResults = m.results]
                IN  IF summary_wanted(st)
                    THEN Commit(c, m, [ce EXCEPT !.pc = "summary"])
                    ELSE Commit(c, m, Ended(ce, "returned"))
    /\ UNCHANGED <<ncalls, nev, others>>

\* lines 317-326: the summarizer answers; state is cleared, summary yielded
summarize_no_clear(m) ==
    [m EXCEPT !.yield = <<Summary(m.results)>>]
summarize(m) ==
    [clear_state(m) EXCEPT !.yield = <<Summary(m.results)>>]

Summarize(c) ==
    /\ calls[c].pc = "summary"
    /\ MayRun(c)
    /\ LET m  == summarize(M(c))
           cr == [Locals(calls[c], m) EXCEPT !.nsum = @ + 1,
                                             !.sumArg = m.yield[1].content]
       IN  Commit(c, m, Ended(cr, "returned"))
    /\ UNCHANGED <<ncalls, nev, others>>

\* line 318: the summarizer call raises; nothing is cleared
SummarizeFail(c) ==
    /\ calls[c].pc = "summary"
    /\ MayRun(c)
    /\ calls' = [calls EXCEPT ![c] = Ended([@ EXCEPT !.nsum = @ + 1], "LLMError")]
    /\ UNCHANGED <<self, heap, nextId, nextGid, ncalls, nev, others>>

\* the failure is caught and the loop is entered again
TransportErrorRetried(c) ==
    /\ calls[c].pc = "run"
    /\ MayRun(c)
    /\ ~calls[c].gen_stop
    /\ calls' = [calls EXCEPT ![c] = [@ EXCEPT !.pc = "top", !.atYield = FALSE,
                                               !.outcome = "TransportError"]]
    /\ UNCHANGED <<self, heap, nextId, nextGid, ncalls, nev, others>>

\* the transport raises during a node invocation
TransportError(c) ==
    /\ calls[c].pc = "run"
    /\ MayRun(c)
    /\ ~calls[c].gen_stop
    /\ LET cs == [calls EXCEPT ![c] = Ended(@, "TransportError")]
       IN  /\ calls' = cs
           /\ heap' = Collect(heap, Live(self, cs))
    /\ UNCHANGED <<self, nextId, nextGid, ncalls, nev, others>>

\* the caller stops consuming the generator at a yield
Abandon(c) ==
    /\ calls[c].pc = "run"
    /\ MayRun(c)
    /\ calls[c].atYield
    /\ LET cs == [calls EXCEPT ![c] = Ended(@, "abandoned")]
       IN  /\ calls' = cs
           /\ heap' = Collect(heap, Live(self, cs))
    /\ UNCHANGED <<self, nextId, nextGid, ncalls, nev, others>>

Step(c) ==
    \/ LoopTop(c)
    \/ NodeEvent(c)
    \/ NextNode(c)
    \/ WorkflowEnd(c)
    \/ Summarize(c)
    \/ SummarizeFail(c)
    \/ TransportError(c)
    \/ Abandon(c)

\* calls made one after the other
Next ==
    \/ StreamCall
    \/ \E c \in CallIds : Step(c)

Spec == Init /\ [][Next]_vars

\* calls that may overlap: a call can start, and another call can go on,
\* while a call is suspended at a yield
NextConc ==
    \/ StreamCall
    \/ OverlappingCall
    \/ \E c \in CallIds : Step(c)

SpecConc == Init /\ [][NextConc]_vars

\* ------------------------------------------------- the unbounded run loop
\* A run loop that restarts for ever creates a dynamic node, an invocation
\* and possibly a notification at every turn.  None of these is read again
\* by stream: a dynamic node has no edge and is never a start node.  Forget
\* drops them at the head of a restarted loop, together with the count of
\* events, so that a loop that repeats is seen to repeat.
RECURSIVE Reclaim(_, _)
Reclaim(G, n) ==
    IF n > 1 /\ (n - 1) \in NodeSet(G) /\ G.info[n - 1].key = ""
    THEN Reclaim([G EXCEPT !.nodes = SelectSeq(@, LAMBDA x : x # n - 1),
                           !.info[n - 1] = NoInfo],
                 n - 1)
    ELSE [graph |-> G, nextId |-> n]

Forget(c) ==
    /\ calls[c].pc = "top"
    /\ MayRun(c)
    /\ calls[c].inv # <<>>
    /\ self.graph # NoGraph
    /\ self.results = <<>>
    /\ calls' = [calls EXCEPT ![c] =
                   [@ EXCEPT !.inv = <<@[Len(@)]>>, !.out = <<>>, !.pending = {},
                             !.answered = <<>>, !.lastEv = NoEvent]]
    /\ heap' = [heap EXCEPT ![self.graph] = Reclaim(@, nextId).graph]
    /\ nextId' = Reclaim(heap[self.graph], nextId).nextId
    /\ nev' = 0
    /\ UNCHANGED <<self, nextGid, ncalls, others>>

StepLive(c) ==
    \/ LoopTop(c)
    \/ NodeEvent(c)
    \/ NextNode(c)
    \/ WorkflowEnd(c)
    \/ Summarize(c)
    \/ Forget(c)

\* calls made one after the other, by a caller that consumes every event,
\* with a transport and a summarizer that always answer
NextLive ==
    \/ StreamCall
    \/ \E c \in CallIds : StepLive(c)

\* the steps that stream and run_workflow take by themselves
Progress ==
    \E c \in CallIds : LoopTop(c) \/ NextNode(c) \/ WorkflowEnd(c) \/ Summarize(c)

\* every node's stream ends, and the loop is never left waiting
SpecLive == Init /\ [][NextLive]_vars /\ WF_vars(Progress)

\* the orchestrator's state, which the router and the guardian never touch
orchestrator == <<self, heap, nextId, nextGid, calls, ncalls, nev>>

\* ------------------------------------------------------------ the router
\* labels the classifier can produce, and labels it should not
Labels == {"methodology", "static_knowledge", "time_sensitive", "small_talk", "", None}

\* _router_from_qa applied to one more label
RouteLabel ==
    \E label \in Labels :
        /\ Len(routed) < MaxRoutes
        /\ routed' = Append(routed, [label |-> label, route |-> router_from_qa(label)])
        /\ UNCHANGED <<orchestrator, guardian, executor>>

SpecRouter == Init /\ [][RouteLabel]_vars

\* ---------------------------------------------------------- the guardian
InitializeSecurity ==
    \E outcome \in EngineOutcomes :
        /\ guardian.ops < MaxChecks
        /\ guardian' = initialize_security(Began(guardian, "initialize_security"), outcome)
        /\ UNCHANGED <<orchestrator, routed, executor>>

ValidateAction ==
    \E decision \in EngineDecisions :
        /\ guardian.ops < MaxChecks
        /\ guardian' = validate_action(Began(guardian, "validate_action"), decision)
        /\ UNCHANGED <<orchestrator, routed, executor>>

GuardianStream ==
    \E json \in BOOLEAN, decision \in EngineDecisions, n \in 0..1 :
        /\ guardian.ops < MaxChecks
        /\ guardian' = guardian_stream(Began(guardian, "stream"), json, decision, n)
        /\ UNCHANGED <<orchestrator, routed, executor>>

\* the decisions the engine would give for the actions of a workflow
RECURSIVE Workflows(_)
Workflows(n) ==
    IF n = 0 THEN {<<>>}
    ELSE Workflows(n - 1)
         \cup {Append(w, d) : w \in {v \in Workflows(n - 1) : Len(v) = n - 1},
                              d \in EngineDecisions}

ValidateWorkflow ==
    \E decisions \in Workflows(MaxActions) :
        /\ guardian.ops < MaxChecks
        /\ guardian' = validate_workflow_execution(
                           Began(guardian, "validate_workflow_execution"), decisions)
        /\ UNCHANGED <<orchestrator, routed, executor>>

NextGuardian ==
    \/ ValidateWorkflow
    \/ InitializeSecurity
    \/ ValidateAction
    \/ GuardianStream

SpecGuardian == Init /\ [][NextGuardian]_vars

\* --------------------------------------------------------- the executor
\* the sequences of at most n items out of S
RECURSIVE Seqs(_, _)
Seqs(S, n) ==
    IF n = 0 THEN {<<>>}
    ELSE Seqs(S, n - 1)
         \cup {Append(q, x) : q \in {r \in Seqs(S, n - 1) : Len(r) = n - 1}, x \in S}

\* the items an agent can yield in one run
AgentRuns(agent) ==
    IF agent = "orchestrator" THEN Seqs(OrchestratorItems, MaxItems)
    ELSE {planner_stream(n, status) : n \in 0..(MaxItems - 1), status \in PlannerStatuses}

\* execute is run for a request, over the items of an agent's stream
Execute ==
    \E req \in Requests, agent \in {"orchestrator", "planner"} :
        \E items \in AgentRuns(agent) :
            /\ executor.runs < MaxRuns
            /\ executor' = [runs |-> executor.runs + 1, agent |-> agent, req |-> req,
                            items |-> items,
                            published |-> execute(req, items).published,
                            outcome |-> execute(req, items).outcome]
            /\ UNCHANGED <<orchestrator, routed, guardian>>

SpecExecutor == Init /\ [][Execute]_vars

\* ------------------------------------------------------------ properties
HasGraph == self.graph # NoGraph
TheGraph == heap[self.graph]
Last(q) == q[Len(q)]

\* the call has passed validation and bootstrap and has not invoked a node yet
BeforeFirstInvocation(c) == calls[c].pc = "top" /\ calls[c].inv = <<>>

\* the graph holds a single node: a root made by call c, keyed 'planner',
\* carrying the query of c, and nothing else
FreshRootOnly(c) ==
    /\ HasGraph
    /\ calls[c].root # NoNode
    /\ TheGraph.nodes = <<calls[c].root>>
    /\ TheGraph.edges = <<>>
    /\ TheGraph.state = "NOT_STARTED"
    /\ TheGraph.info[calls[c].root].key = "planner"
    /\ TheGraph.info[calls[c].root].by = c
    /\ TheGraph.info[calls[c].root].task = QueryOf(c)
    /\ TheGraph.info[calls[c].root].query = QueryOf(c)

\* the call was made with the tracked context id while the graph was paused
ResumingCall(c) ==
    /\ calls[c].pc # "new"
    /\ calls[c].resumeAt # NoNode
    /\ calls[c].tracked = calls[c].argctx
    /\ calls[c].query # ""

\* C1: Resume correctness: a call stream(answer, context_id, task_id) made
\* with the tracked context id while the graph is PAUSED at node N does not
\* fail, creates no new root node, and its first transport invocation
\* targets N, with N's query set to the answer and the graph RUNNING.
C1_ResumeCorrectness ==
    \A c \in CallIds :
        ResumingCall(c) =>
            /\ ~(calls[c].pc = "done" /\ calls[c].inv = <<>>)
            /\ calls[c].root = NoNode
            /\ calls[c].inv # <<>> =>
                   /\ calls[c].inv[1].node = calls[c].resumeAt
                   /\ calls[c].inv[1].query = QueryOf(c)

\* C2: Context switch: on a call whose context_id differs from the tracked
\* one, before the first node is invoked, results and shared context are
\* empty, query_history holds exactly the new query, and the graph is a new
\* one holding only a fresh root node.
C2_ContextSwitch ==
    \A c \in CallIds :
        (BeforeFirstInvocation(c) /\ calls[c].switched) =>
            /\ self.results = <<>>
            /\ self.query_context = EmptyDict
            /\ self.query_history = <<QueryOf(c)>>
            /\ self.context_id = calls[c].argctx
            /\ self.graph # calls[c].oldGraph
            /\ FreshRootOnly(c)

\* a call switched away from a context that had a graph and results
C2_Witness ==
    \E c \in CallIds :
        /\ BeforeFirstInvocation(c)
        /\ calls[c].switched
        /\ calls[c].tracked # None
        /\ calls[c].oldGraph # NoGraph
        /\ calls[c].oldResults # <<>>

\* C3: Context isolation: whatever the interleaving of calls with different
\* context ids, every artifact in results was received by a call of the
\* tracked context, and every node of the graph was made by a call of the
\* tracked context.
C3_ContextIsolation ==
    /\ \A i \in 1..Len(self.results) : self.results[i].srcctx = self.context_id
    /\ HasGraph =>
           \A n \in NodeSet(TheGraph) : TheGraph.info[n].byctx = self.context_id

\* C4: Idempotent completion: after a call that ends with a summary the
\* graph is dropped and results is empty, and the next call with the same
\* context id starts a new graph whose only node is a new 'planner' root
\* carrying that call's query.
C4_IdempotentCompletion ==
    \A c \in CallIds :
        /\ (c = ncalls /\ calls[c].pc = "done" /\ calls[c].outcome = "returned"
                /\ calls[c].nsum = 1)
             => (self.graph = NoGraph /\ self.results = <<>>)
        /\ (BeforeFirstInvocation(c) /\ calls[c].afterSummary
                /\ calls[c].tracked = calls[c].argctx)
             => (FreshRootOnly(c) /\ calls[c].oldGraph = NoGraph
                 /\ calls[c].oldResults = <<>>)

\* a call follows, in the same context, a call that ended with a summary
C4_Witness ==
    \E c \in CallIds :
        /\ BeforeFirstInvocation(c)
        /\ calls[c].afterSummary
        /\ calls[c].tracked = calls[c].argctx

\* the edges R -> first -> first+1 -> ... -> first+n-1
Chain(R, first, n) ==
    [i \in 1..n |-> IF i = 1 THEN <<R, first>> ELSE <<first + i - 2, first + i - 1>>]

\* call c receives, in this step, an artifact
ReceivesArtifact(c) ==
    /\ calls[c].pc = "run"
    /\ nev' = nev + 1
    /\ Len(calls'[c].arts) = Len(calls[c].arts) + 1

\* C5: Graph expansion ordering: a plan artifact with data_info and tasks
\* t1..tn (n >= 1) arriving during the invocation of node R adds exactly n
\* nodes, one per task with the task's description as instruction, adds
\* exactly the edges R->t1->...->tn in that order, and the next transport
\* invocation targets t1.
C5_ExpansionOrdering ==
    [][\A c \in CallIds :
        /\ (ReceivesArtifact(c) /\ WellFormedPlan(Last(calls'[c].arts))) =>
             LET a == Last(calls'[c].arts)
                 n == Len(a.task)
                 g == calls[c].gen_g
                 R == calls[c].gen_cur
             IN  /\ heap'[g].nodes = heap[g].nodes \o [i \in 1..n |-> nextId + i - 1]
                 /\ heap'[g].edges = heap[g].edges \o Chain(R, nextId, n)
                 /\ \A i \in 1..n : heap'[g].info[nextId + i - 1].query = a.task[i]
        /\ (Len(calls'[c].inv) = Len(calls[c].inv) + 1) =>
             \A t \in calls[c].pending : Last(calls'[c].inv).node = t
      ]_vars

\* C6: Unresolvable clarification: when a node invocation emits
\* input_required and the resolver cannot answer, the call does not raise;
\* it ends with the graph PAUSED at that node and without a summary.
C6_UnresolvedPauses ==
    \A c \in CallIds :
        (c = ncalls /\ calls[c].pc = "done" /\ calls[c].unres # NoNode
            /\ calls[c].outcome \notin {"abandoned", "TransportError", "LLMError", "KeyError"})
          => /\ calls[c].outcome = "returned"
             /\ calls[c].nsum = 0
             /\ HasGraph
             /\ TheGraph.state = "PAUSED"
             /\ TheGraph.paused_node_id = calls[c].unres

\* C7: Malformed artifact tolerance: a 'PlannerAgent-result' artifact that
\* lacks data_info, the task list or a task's description does not raise
\* out of stream; no node and no edge is left behind and the loop goes on.
C7_MalformedTolerance ==
    [][\A c \in CallIds :
        (ReceivesArtifact(c) /\ MalformedPlan(Last(calls'[c].arts))) =>
            /\ calls'[c].pc = "run"
            /\ calls'[c].outcome = "none"
            /\ heap'[calls[c].gen_g].nodes = heap[calls[c].gen_g].nodes
            /\ heap'[calls[c].gen_g].edges = heap[calls[c].gen_g].edges
      ]_vars

\* C8: Empty query: a call with an empty query fails with the validation
\* error before anything else happens: no transport invocation, and the
\* tracked context id, graph, results, shared context and query history
\* are unchanged, also when its context id differs from the tracked one.
C8_EmptyQuery ==
    [][\A c \in CallIds :
        (calls[c].pc = "new" /\ calls'[c].pc # "new" /\ calls'[c].query = "") =>
            /\ calls'[c].pc = "done"
            /\ calls'[c].outcome = "ValueError"
            /\ calls'[c].inv = <<>>
            /\ calls'[c].out = <<>>
            /\ self' = self
            /\ heap' = heap
            /\ nextId' = nextId
      ]_vars

\* an empty-query call for another context was made while a context with a
\* graph and results was tracked
C8_Witness ==
    \E c \in CallIds :
        /\ calls[c].pc = "done"
        /\ calls[c].outcome = "ValueError"
        /\ self.context_id # None
        /\ calls[c].argctx # self.context_id
        /\ HasGraph
        /\ self.results # <<>>
        /\ self.query_history # <<>>

\* C9: Final summary: in every call the summarizer is invoked at most once,
\* and exactly when the graph is COMPLETED at the exit of the run loop; it
\* receives the results accumulated so far, and the summary event is the
\* last event the call yields.
C9_FinalSummary ==
    \A c \in CallIds :
        /\ calls[c].nsum <= 1
        /\ calls[c].pc = "summary" => (calls[c].exitState = "COMPLETED" /\ calls[c].nsum = 0)
        /\ (calls[c].pc = "done" /\ calls[c].exitState # "none")
             => (calls[c].nsum = 1 <=> calls[c].exitState = "COMPLETED")
        /\ (calls[c].nsum = 1 /\ calls[c].exitState = "none") => FALSE
        /\ \A i \in 1..Len(calls[c].out) :
               calls[c].out[i].type = "summary" =>
                   /\ i = Len(calls[c].out)
                   /\ calls[c].pc = "done"
                   /\ calls[c].nsum = 1
                   /\ calls[c].out[i].content = calls[c].exitResults
        /\ (calls[c].nsum = 1 /\ calls[c].outcome = "returned") =>
               /\ calls[c].out # <<>>
               /\ Last(calls[c].out).type = "summary"
               /\ calls[c].sumArg = calls[c].exitResults

\* a call summarized a non-empty results list after yielding other events
C9_Witness ==
    \E c \in CallIds :
        /\ calls[c].pc = "done"
        /\ calls[c].outcome = "returned"
        /\ calls[c].nsum = 1
        /\ calls[c].sumArg # <<>>
        /\ Len(calls[c].out) >= 2

C11_TransportError ==
    [][\A c \in CallIds :
        /\ (calls[c].pc = "run" /\ calls'[c].outcome = "TransportError") =>
              /\ calls'[c].pc = "done"
              /\ calls'[c].inv = calls[c].inv
              /\ calls'[c].out = calls[c].out
              /\ calls'[c].nsum = 0
        /\ (calls[c].outcome = "TransportError"
               /\ calls'[c].outcome = "TransportError") => calls'[c] = calls[c]
      ]_vars

C11_Witness ==
    \E c \in CallIds :
        /\ calls[c].outcome = "TransportError"
        /\ calls[c].pc = "done"
        /\ calls[c].inv # <<>>

\* C12: Single in-flight node: of the calls made with one context id, at
\* most one is inside its run loop (suspended in it or running it) at any
\* time, however the calls interleave.
C12_SingleInFlight ==
    \A c, d \in CallIds :
        (c # d /\ calls[c].pc = "run" /\ calls[d].pc = "run")
            => calls[c].argctx # calls[d].argctx

\* C13: Resolver failure: whatever the classifier does (raises, answers
\* text that does not validate, answers a class), answer_planner_question
\* returns without raising and with can_answer yes or no; when the
\* classification fails the answer is no and the graph is left as it was.
C13_ResolverFailure ==
    \A c \in CallIds :
        calls[c].pc = "run" =>
            \A cls \in ClassifierOutcomes :
                /\ Ok(answer_planner_question(M(c), Question, calls[c].ctx,
                                              calls[c].task_id, cls))
                /\ answer_planner_question(M(c), Question, calls[c].ctx,
                                           calls[c].task_id, cls).ret.can_answer
                       \in {"yes", "no"}
                /\ cls \in {"error", "malformed"} =>
                       /\ answer_planner_question(M(c), Question, calls[c].ctx,
                                                  calls[c].task_id, cls).ret = CannotAnswer
                       /\ answer_planner_question(M(c), Question, calls[c].ctx,
                                                  calls[c].task_id, cls).heap = heap

\* a clarification was asked and the resolver answered no
C13_Witness ==
    \E c \in CallIds :
        /\ calls[c].pc = "run"
        /\ calls[c].unres # NoNode
        /\ HasGraph
        /\ TheGraph.state = "PAUSED"

\* C14: Router: every label has a flow descriptor: methodology gives the
\* direct-answer flow, static_knowledge gives worker_semantic with top_k 8,
\* time_sensitive gives planner_tool with the tool web.search, any other
\* label (the empty one and None too) gives the direct-answer flow; a label
\* routed twice gets the same descriptor, and routing changes no state of
\* the controller.
C14_Router ==
    /\ \A i \in 1..Len(routed) :
          /\ routed[i].label = "methodology" =>
                 routed[i].route.flow = "orchestrator_answer"
          /\ routed[i].label = "static_knowledge" =>
                 routed[i].route.flow = "worker_semantic" /\ routed[i].route.top_k = 8
          /\ routed[i].label = "time_sensitive" =>
                 routed[i].route.flow = "planner_tool" /\ routed[i].route.tool = "web.search"
          /\ routed[i].label \notin {"methodology", "static_knowledge", "time_sensitive"} =>
                 routed[i].route.flow = "orchestrator_answer"
    /\ \A i, j \in 1..Len(routed) :
          routed[i].label = routed[j].label => routed[i].route = routed[j].route
    /\ routed # <<>> =>
          /\ self = [graph |-> NoGraph, results |-> <<>>, query_context |-> EmptyDict,
                     query_history |-> <<>>, context_id |-> None]
          /\ ncalls = 0

\* the empty label, None and a known label have all been routed
C14_Witness ==
    /\ Len(routed) = MaxRoutes
    /\ \E i \in 1..Len(routed) : routed[i].label = ""
    /\ \E i \in 1..Len(routed) : routed[i].label = None
    /\ \E i \in 1..Len(routed) : routed[i].label = "time_sensitive"

\* C15: Guardian fail-safe: while system_secure is false, validate_action
\* answers the hard deny (allow false, deny true, risk score 1.0) without
\* asking the policy engine, and stream yields the one terminal
\* security-error item and nothing else; system_secure becomes true only in
\* initialize_security, after a health check that reported system_secure.
C15_GuardianFailSafe ==
    [][/\ (~guardian.system_secure /\ guardian'.ops = guardian.ops + 1
              /\ guardian'.op = "validate_action") =>
             /\ guardian'.ret = <<HardDeny>>
             /\ ~guardian'.ret[1].allow
             /\ guardian'.ret[1].deny
             /\ guardian'.ret[1].risk_score = 10
             /\ guardian'.evaluations = guardian.evaluations
       /\ (~guardian.system_secure /\ guardian'.ops = guardian.ops + 1
              /\ guardian'.op = "stream") =>
             /\ guardian'.out = <<SecurityError>>
             /\ guardian'.evaluations = guardian.evaluations
       /\ (~guardian.system_secure /\ guardian'.system_secure) =>
             /\ guardian'.op = "initialize_security"
             /\ guardian'.health_checks = guardian.health_checks + 1
             /\ guardian'.health = "secure"
      ]_vars

\* a failed initialisation, then an action denied without the engine
C15_Witness ==
    /\ ~guardian.system_secure
    /\ guardian.initialized > 0
    /\ guardian.op = "validate_action"
    /\ guardian.ret = <<HardDeny>>
    /\ guardian.evaluations = 0

\* the last event call c received was an input_required that the resolver
\* answered with can_answer = v
Answered(c, v) ==
    /\ IsInputRequired(calls[c].lastEv)
    /\ calls[c].answered # <<>>
    /\ calls[c].answered[1].can_answer = v

C17_ResumeDoesNotYield ==
    [][\A c \in CallIds :
        (/\ calls[c].pc \in {"run", "top"}
         /\ calls'[c].pc \in {"run", "top"}
         /\ calls[c].resume \/ calls'[c].resume) =>
            calls'[c].out = calls[c].out
      ]_vars

\* C18: Termination: when every node's stream is finite and the classifier
\* and the summarizer always return, every stream call ends, also when the
\* remote agent keeps asking for input and the resolver keeps answering.
C18_Termination == []<>(\A c \in CallIds : calls[c].pc \in {"new", "done"})

\* call c receives an event in this step, handles it to the end and leaves
\* 'resume immediately' unset
PassesEvent(c) ==
    /\ calls[c].pc = "run"
    /\ calls'[c].pc = "run"
    /\ nev' = nev + 1
    /\ calls'[c] # calls[c]
    /\ ~calls'[c].resume

Delivered(c, ev, cls) ==
    handle_chunk([(IF IsInputRequired(ev)
                   THEN [M(c) EXCEPT !.heap[calls[c].gen_g] =
                                         mark_paused(@, calls[c].gen_cur)]
                   ELSE M(c)) EXCEPT !.nev = nev + 1],
                 ev, cls)

\* the same state and the same outcome; what is yielded may differ only in
\* the chunk that is passed through
SameEffect(m1, m2) ==
    /\ [m1 EXCEPT !.yield = <<>>] = [m2 EXCEPT !.yield = <<>>]
    /\ Len(m1.yield) = Len(m2.yield)
    /\ \A i \in 1..Len(m1.yield) : m1.yield[i].type = m2.yield[i].type

C22_AbandonedCall ==
    \A c \in CallIds :
        (calls[c].abandoned # NoNode /\ calls[c].pc = "top" /\ calls[c].inv = <<>>) =>
            /\ \/ calls[c].root # NoNode
               \/ calls[c].start = calls[c].abandoned
            /\ calls[c].start \in NodeSet(heap[self.graph])

\* call c has just handled event ev of the invocation of a node (the
\* invocation goes on or ended in an exception of the handler)
Handled(c) ==
    /\ calls[c].pc = "run"
    /\ nev' = nev + 1
    /\ calls'[c] # calls[c]

\* C23: Completed notification: every completed status event received
\* during a node invocation makes stream yield exactly one completed
\* notification, whose node is the node whose invocation emitted the event,
\* and the invocation goes on.
C23_CompletedNotification ==
    [][\A c \in CallIds :
        (Handled(c) /\ calls'[c].lastEv.kind = "status_completed") =>
            /\ calls'[c].out =
                   Append(calls[c].out,
                          Completed(calls[c].gen_cur, calls'[c].lastEv.ctx))
            /\ calls'[c].pc = "run"
            /\ ~calls'[c].gen_stop
      ]_vars

\* events that are neither an artifact, nor a completed or input_required
\* status update, nor a task snapshot with input_required status
Unclassified(ev) == ev.kind \in {"status_working", "task_working", "error_response"}

\* C24: Unclassified events change nothing: handling such an event leaves
\* the graph (nodes, edges, state), the current node, results, shared
\* context and query_history unchanged, and streaming continues with the
\* next event.
C24_UnclassifiedFrame ==
    [][\A c \in CallIds :
        (Handled(c) /\ Unclassified(calls'[c].lastEv)) =>
            /\ heap' = heap
            /\ self' = self
            /\ calls'[c].start = calls[c].start
            /\ calls'[c].resume = calls[c].resume
            /\ nextId' = nextId
            /\ calls'[c].pc = "run"
            /\ ~calls'[c].gen_stop
      ]_vars

\* each kind of unclassified event was received, one after the other
C24_Witness ==
    \E c \in CallIds :
        /\ calls[c].pc = "run"
        /\ Len(calls[c].out) = 2
        /\ calls[c].out[1].ev.kind = "status_working"
        /\ calls[c].out[2].ev.kind = "error_response"
        /\ calls[c].lastEv.kind = "error_response"
        /\ self.results = <<>>

\* C25: Non-plan artifacts: an artifact whose name is not
\* 'PlannerAgent-result' is appended to results, is not forwarded to the
\* caller, and changes neither the current node, the resume flag, the graph
\* nor the shared context.
C25_NonPlanArtifact ==
    [][\A c \in CallIds :
        (/\ Handled(c)
         /\ calls'[c].lastEv.kind = "artifact"
         /\ calls'[c].lastEv.name # "PlannerAgent-result") =>
            /\ self'.results =
                   Append(self.results,
                          Artifact(calls'[c].lastEv, c, calls[c].argctx, nev'))
            /\ calls'[c].out = calls[c].out
            /\ calls'[c].start = calls[c].start
            /\ calls'[c].resume = calls[c].resume
            /\ heap' = heap
            /\ self'.graph = self.graph
            /\ self'.query_context = self.query_context
            /\ calls'[c].pc = "run"
      ]_vars

\* a worker's artifact was received after a passed-through event: it is in
\* results and the caller was given nothing for it
C25_Witness ==
    \E c \in CallIds :
        /\ calls[c].pc = "run"
        /\ calls[c].lastEv.kind = "artifact"
        /\ calls[c].lastEv.name = "WorkerAgent-result"
        /\ ~calls[c].resume
        /\ Len(self.results) = 1
        /\ self.results[1].name = "WorkerAgent-result"
        /\ Len(calls[c].out) = 1
        /\ calls[c].out[1].type = "chunk"
        /\ calls[c].out[1].ev.kind = "task_working"

\* the same state and outcome but for the artifact kept in results; as many
\* events yielded
SameButArtifact(m1, m2) ==
    /\ [m1 EXCEPT !.yield = <<>>, !.results = <<>>, !.cont = FALSE]
           = [m2 EXCEPT !.yield = <<>>, !.results = <<>>, !.cont = FALSE]
    /\ Len(m1.results) = Len(m2.results)
    /\ Len(m1.yield) = Len(m2.yield)

\* C26: Plan artifact without data_info is opaque: in every state of a node
\* invocation, a 'PlannerAgent-result' artifact whose payload lacks
\* data_info has the effect of a non-plan artifact on results, graph,
\* shared context and current node, and the same events are yielded.
C26_PlanWithoutDataInfo ==
    \A c \in CallIds :
        (calls[c].pc = "run" /\ ~calls[c].gen_stop) =>
            SameButArtifact(
                Delivered(c, Plan(FALSE, EmptyDict, TRUE, <<"d1">>), "error"),
                Delivered(c, Event("artifact", None, "WorkerAgent-result",
                                   FALSE, EmptyDict, FALSE, <<>>), "error"))

\* q1 is an initial segment of q2
IsPrefix(q1, q2) ==
    /\ Len(q1) <= Len(q2)
    /\ \A i \in 1..Len(q1) : q1[i] = q2[i]

\* C27: query_history is append-only within a context: as long as the
\* context id stays the same, no step of any stream call (the end of a call
\* in completion and summary included) shortens query_history or changes an
\* entry it already has.
C27_HistoryAppendOnly ==
    [][(self'.context_id = self.context_id)
          => IsPrefix(self.query_history, self'.query_history)]_vars

\* the root is the node stream creates with the key 'planner'
IsRoot(G, n) == G.info[n].key = "planner"
HasIncomingEdge(G, n) == \E i \in 1..Len(G.edges) : G.edges[i][2] = n

\* C28: Incoming-edge invariant: in every reachable graph, every node except
\* the root has at least one incoming edge, the nodes created while
\* resolving a clarification and those created by plan expansion included.
C28_IncomingEdge ==
    \A g \in DOMAIN heap :
        heap[g].state # "FREE" =>
            \A n \in NodeSet(heap[g]) :
                IsRoot(heap[g], n) \/ HasIncomingEdge(heap[g], n)

Successors(G, n) == {e[2] : e \in {x \in Range(G.edges) : x[1] = n}}
Predecessors(G, n) == {e[1] : e \in {x \in Range(G.edges) : x[2] = n}}

\* C29: The graph stays an ordered chain: in every reachable graph every
\* node has at most one successor and at most one predecessor, also when
\* more than one plan artifact arrives during one node invocation or across
\* invocations.
C29_OrderedChain ==
    \A g \in DOMAIN heap :
        heap[g].state # "FREE" =>
            \A n \in NodeSet(heap[g]) :
                /\ Cardinality(Successors(heap[g], n)) <= 1
                /\ Cardinality(Predecessors(heap[g], n)) <= 1

\* no call is in the middle of its run loop
BetweenRuns == \A c \in CallIds : calls[c].pc \in {"new", "done", "summary"}
                                     \/ BeforeFirstInvocation(c)

\* C30: COMPLETED is terminal: a graph instance that a call has left
\* COMPLETED is never run again: no later step invokes one of its nodes,
\* adds a node to it or changes its state, also when the summarizer failed
\* and the graph was therefore not dropped.
C30_CompletedTerminal ==
    [][\A g \in DOMAIN heap :
        (heap[g].state = "COMPLETED" /\ BetweenRuns) =>
            /\ heap'[g].state \in {"COMPLETED", "FREE"}
            /\ heap'[g].state = "COMPLETED" => heap'[g] = heap[g]
            /\ \A c \in CallIds :
                   Len(calls'[c].inv) > Len(calls[c].inv) => Last(calls'[c].inv).g # g
            /\ BetweenRuns'
      ]_vars

\* the summarizer failed, the graph stayed COMPLETED, and the next call with
\* the same context id has ended at the head of its loop without invoking
\* anything
C30_Witness ==
    \E c \in CallIds :
        /\ c > 1
        /\ calls[c].pc = "done"
        /\ calls[c].outcome = "UnknownNodeError"
        /\ calls[c].inv = <<>>
        /\ calls[c].oldGraph = self.graph
        /\ HasGraph
        /\ TheGraph.state = "COMPLETED"

\* C31: Stamping: at every transport invocation made by a call
\* stream(query, context_id, task_id), the invoked node's attributes task_id
\* and context_id equal that call's arguments, whatever context ids the
\* events received earlier in the call carried.
C31_Stamping ==
    \A c \in CallIds :
        \A i \in 1..Len(calls[c].inv) :
            /\ calls[c].inv[i].task_id = calls[c].task_id
            /\ calls[c].inv[i].context_id = calls[c].argctx

\* results as the entry of call c left it: emptied by a change of context
ResultsAtEntry(c) == IF calls[c].switched THEN <<>> ELSE calls[c].oldResults

\* C32: Artifact order: while a call is under way, results is what it was
\* after the call's entry followed by all artifacts the call has received,
\* in the order received, none dropped, duplicated or reordered, also for
\* those received after 'resume immediately' was set.
C32_ArtifactOrder ==
    \A c \in CallIds :
        (calls[c].pc \in {"top", "run", "summary"}) =>
            self.results = ResultsAtEntry(c) \o calls[c].arts

\* a worker's artifact arrived after a plan artifact had asked for the
\* restart; both are in results, in that order
C32_Witness ==
    \E c \in CallIds :
        /\ calls[c].pc = "run"
        /\ calls[c].resume
        /\ Len(calls[c].arts) = 2
        /\ WellFormedPlan(calls[c].arts[1])
        /\ calls[c].arts[2].name = "WorkerAgent-result"
        /\ self.results = calls[c].arts

\* the keys of a dictionary given as a set of <<key, value>> entries
Keys(D) == {e[1] : e \in D}

\* C33: shared_context is merged: after a plan artifact with context
\* payload D is processed, shared_context contains every entry of D and
\* still contains every earlier entry whose key D does not override.
C33_SharedContextMerged ==
    [][\A c \in CallIds :
        (/\ Handled(c)
         /\ calls'[c].lastEv.kind = "artifact"
         /\ calls'[c].lastEv.name = "PlannerAgent-result"
         /\ calls'[c].lastEv.has_data_info) =>
            /\ calls'[c].lastEv.data_info \subseteq self'.query_context
            /\ \A e \in self.query_context :
                   e[1] \notin Keys(calls'[c].lastEv.data_info)
                       => e \in self'.query_context
      ]_vars

\* an item execute can take: a protocol response, or a mapping with the
\* keys it reads
Consumable(item) ==
    \/ item.kind = "response"
    \/ {"is_task_complete", "require_user_input"} \subseteq item.keys

\* C34: Output events are consumable by the executor: every item an agent's
\* stream yields to ABIAgentExecutor.execute (orchestrator notifications and
\* summary, planner intermediate and final responses) is a pass-through
\* protocol response or a mapping that carries the keys is_task_complete
\* and require_user_input.
C34_ConsumableItems ==
    \A i \in 1..Len(executor.items) : Consumable(executor.items[i])

\* the updates execute is to publish for the items from item i on: one
\* 'working' status per mapping, up to the first terminal item
RECURSIVE Expected(_, _)
Expected(items, i) ==
    IF i > Len(items) THEN <<>>
    ELSE IF items[i].kind = "response" THEN Expected(items, i + 1)
    ELSE IF IsComplete(items[i]) THEN <<"artifact", "complete">>
    ELSE IF items[i].input THEN <<"input_required">>
    ELSE <<"working">> \o Expected(items, i + 1)

\* the updates among what was put on the queue
RECURSIVE Updates(_)
Updates(published) ==
    IF published = <<>> THEN <<>>
    ELSE IF Head(published) = "task" THEN Updates(Tail(published))
    ELSE <<Head(published)>> \o Updates(Tail(published))

\* C36: Executor terminal item: for a request that carries input and items
\* execute can read, execute processes the items in order and stops at the
\* first item that is task-complete (one result artifact, the task
\* completed once) or that requires user input (one final input_required
\* status); every earlier mapping produces one 'working' status update, and
\* nothing is published after the terminal item.
C36_ExecutorTerminalItem ==
    (/\ executor.runs > 0
     /\ executor.req.input_data = "given"
     /\ \A i \in 1..Len(executor.items) : Consumable(executor.items[i]))
        => Updates(executor.published) = Expected(executor.items, 1)

\* C37: Guardian workflow validation is total: validate_workflow_execution
\* returns a PolicyDecision for every workflow, never failing; for an empty
\* action list it returns risk_score 0.0, deny = false and allow = true; for
\* a workflow in which at least one action is denied it returns deny = true
\* and allow = false.
C37_WorkflowValidationTotal ==
    guardian.op = "validate_workflow_execution" =>
        /\ guardian.raised = "none"
        /\ Len(guardian.ret) = 1
        /\ guardian.decided = <<>> =>
               guardian.ret[1] = PolicyDecision(TRUE, FALSE, 0, "none")
        /\ blocked_actions(guardian.decided) # {} =>
               (guardian.ret[1].deny /\ ~guardian.ret[1].allow)

\* the nodes call c has had invoked in the agent's graph
Invoked(c) ==
    {calls[c].inv[i].node :
        i \in {j \in 1..Len(calls[c].inv) : calls[c].inv[j].g = self.graph}}

\* C35: No orphaned work: when the summary of a graph is about to be
\* emitted, every node that was added to the graph (the root, the nodes of
\* plan expansions and the nodes created when a clarification was resolved)
\* has been invoked through the transport; stated for a graph built and
\* completed within one call.
C35_NoOrphanedWork ==
    \A c \in CallIds :
        (calls[c].pc = "summary" /\ calls[c].root # NoNode /\ HasGraph) =>
            NodeSet(TheGraph) \subseteq Invoked(c)

====
